---------------------------- MODULE Spec2Model ----------------------------
(***************************************************************************)
(* A model of the fig IR backend (src/src/ir.rs, src/src/main.rs): the     *)
(* block builder with its register and stack allocators, the lowering of   *)
(* instructions, blocks, functions and modules to assembly text, and the   *)
(* meaning of the emitted lines on an x86-64 machine with a narrowed word. *)
(***************************************************************************)
EXTENDS Integers, Sequences, FiniteSets, TLC

VARIABLES
    blocks,       \* block name -> Block (name, instructions, registers, stack)
    last,         \* the latest builder call: its name, block, arguments and result
    panicked,     \* TRUE once RegisterAlloc::alloc hit `expect("no free register")`
    handed,       \* block name -> the locations build calls have returned so far
    live,         \* block name -> the registers returned and not yet released
    disciplined,  \* block name -> every operand so far was live, left # right
    funcs,        \* function name -> Function (name, blocks)
    module,       \* Module (funcs)
    out,          \* the text written by the latest generate_code, a list of lines
    written,      \* every generate_code call so far: what it was called on, its text
    asm,          \* the emitted lines loaded for execution
    pc,           \* index of the next line of asm to execute
    regs,         \* machine register -> value
    mem,          \* byte address -> the qword stored there
    halt,         \* "idle", "running", "done", "exited" or "fault"
    status,       \* the exit status handed to the exit syscall
    regs0,        \* the machine registers when execution started
    mem0,         \* the memory when execution started
    printed       \* the arguments put_int was called with, in call order

vars == <<blocks, last, panicked, handed, live, disciplined, funcs, module, out,
          written, asm, pc, regs, mem, halt, status, regs0, mem0, printed>>

builderVars == <<blocks, last, panicked, handed, live, disciplined>>
moduleVars == <<funcs, module, out, written>>
machineVars == <<asm, pc, regs, mem, halt, status, regs0, mem0, printed>>

-----------------------------------------------------------------------------
(* Bounds of the model. *)

\* Builder calls of any kind are explored for the first MaxInstr instructions
\* of a block; beyond them only build_constant continues, with one immediate.
MaxInstr == 3

\* Total number of instructions over all blocks in the module specification.
MaxModInstr == 2

\* Number of generate_code calls made on what has been built.
MaxWrites == 3

\* Instructions built on each of two blocks that are built side by side.
MaxTwinInstr == 2

\* Allocations and releases in any order are explored for the first
\* MaxReuseInstr instructions of a block; beyond them only build_constant.
MaxReuseInstr == 5

-----------------------------------------------------------------------------
(* ValueRef, Register *)

Register(r) == [reg |-> r]
Memory(o) == [off |-> o]
None == [none |-> TRUE]

IsRegister(v) == DOMAIN v = {"reg"}
IsMemory(v) == DOMAIN v = {"off"}

\* enum Register, in declaration order
Registers ==
    <<"Rax", "Rbx", "Rcx", "Rdx", "Rsi", "Rdi", "R8", "R9", "R10", "R11",
      "R12", "R13", "R14", "R15">>

\* Register::name
Register_name(r) ==
    CASE r = "Rax" -> "rax" [] r = "Rbx" -> "rbx" [] r = "Rcx" -> "rcx"
      [] r = "Rdx" -> "rdx" [] r = "Rsi" -> "rsi" [] r = "Rdi" -> "rdi"
      [] r = "R8" -> "r8" [] r = "R9" -> "r9" [] r = "R10" -> "r10"
      [] r = "R11" -> "r11" [] r = "R12" -> "r12" [] r = "R13" -> "r13"
      [] r = "R14" -> "r14" [] r = "R15" -> "r15"

\* The names Register::name gives
MachineRegs == {Register_name(Registers[i]) : i \in 1..Len(Registers)}

\* ValueRef::code
ValueRef_code(v) ==
    IF IsRegister(v) THEN Register_name(v.reg)
    ELSE "[rbp-" \o ToString(v.off) \o "]"

-----------------------------------------------------------------------------
(* RegisterAlloc, StackAlloc *)

\* A seeded fault: the initial free list names R8 twice and R9 never.
RegisterAlloc_new_dup ==
    [free_regs |-> <<"Rdi", "Rsi", "Rdx", "Rcx", "Rbx", "Rax", "R8", "R8",
                     "R10", "R11", "R12", "R13", "R14", "R15">>,
     used_regs |-> <<>>]

\* RegisterAlloc::new
RegisterAlloc_new ==
    [free_regs |-> <<"Rdi", "Rsi", "Rdx", "Rcx", "Rbx", "Rax", "R8", "R9",
                     "R10", "R11", "R12", "R13", "R14", "R15">>,
     used_regs |-> <<>>]

\* A seeded fault: alloc reads the last free register without removing it.
RegisterAlloc_alloc_keep(registers) ==
    IF registers.free_regs = <<>>
    THEN [panic |-> TRUE, registers |-> registers, reg |-> ""]
    ELSE [panic |-> FALSE, registers |-> registers,
          reg |-> registers.free_regs[Len(registers.free_regs)]]

\* RegisterAlloc::alloc: Vec::pop().expect("no free register")
RegisterAlloc_alloc(registers) ==
    IF registers.free_regs = <<>>
    THEN [panic |-> TRUE, registers |-> registers, reg |-> ""]
    ELSE [panic |-> FALSE,
          registers |-> [registers EXCEPT
              !.free_regs = SubSeq(@, 1, Len(@) - 1)],
          reg |-> registers.free_regs[Len(registers.free_regs)]]

\* A seeded fault: free puts the register at the front of the free list.
RegisterAlloc_free_front(registers, reg) ==
    [registers EXCEPT !.free_regs = <<reg>> \o @]

\* RegisterAlloc::free: Vec::push
RegisterAlloc_free(registers, reg) ==
    [registers EXCEPT !.free_regs = Append(@, reg)]

\* StackAlloc::default
StackAlloc_default == [current_size |-> 0]

\* A seeded fault: alloc returns the counter as it was before the addition.
StackAlloc_alloc_old(stack, size) ==
    [stack |-> [stack EXCEPT !.current_size = @ + size],
     ret |-> stack.current_size]

\* StackAlloc::alloc
StackAlloc_alloc(stack, size) ==
    [stack |-> [stack EXCEPT !.current_size = @ + size],
     ret |-> stack.current_size + size]

-----------------------------------------------------------------------------
(* Block: the builder *)

\* Block::new
Block_new(name) ==
    [name |-> name,
     instructions |-> <<>>,
     registers |-> RegisterAlloc_new,
     stack |-> StackAlloc_default]

\* The result of a builder call: the block afterwards, the value returned,
\* and whether the call panicked (the block is then as it was).
Built(block, ret) == [panic |-> FALSE, block |-> block, ret |-> ret]
Panic(block) == [panic |-> TRUE, block |-> block, ret |-> None]

Push(block, instruction) ==
    [block EXCEPT !.instructions = Append(@, instruction)]

\* `if let ValueRef::Register(reg) = v { self.registers.free(reg); }`
FreeIfRegister(block, v) ==
    IF IsRegister(v)
    THEN [block EXCEPT !.registers = RegisterAlloc_free(@, v.reg)]
    ELSE block

\* Block::build_constant
build_constant(block, value) ==
    LET a == RegisterAlloc_alloc(block.registers)
        storage == Register(a.reg)
    IN  IF a.panic THEN Panic(block)
        ELSE Built(Push([block EXCEPT !.registers = a.registers],
                        [op |-> "Constant", storage |-> storage, value |-> value]),
                   storage)

\* Block::build_alloc
build_alloc(block, size) ==
    LET pushed == Push(block, [op |-> "Alloc", size |-> size])
        s == StackAlloc_alloc(pushed.stack, size)
    IN  Built([pushed EXCEPT !.stack = s.stack], Memory(s.ret))

\* A seeded fault: build_store keeps the register of the value it stored.
build_store_keep(block, value, storage) ==
    Built(Push(block, [op |-> "Store", value |-> value, storage |-> storage]),
          None)

\* Block::build_store
build_store(block, value, storage) ==
    Built(FreeIfRegister(
              Push(block, [op |-> "Store", value |-> value, storage |-> storage]),
              value),
          None)

\* A seeded fault: build_add releases the left operand instead of the right.
build_add_freeleft(block, left, right) ==
    Built(FreeIfRegister(
              Push(block, [op |-> "Add", left |-> left, right |-> right]), left),
          left)

\* Block::build_add
build_add(block, left, right) ==
    Built(FreeIfRegister(
              Push(block, [op |-> "Add", left |-> left, right |-> right]), right),
          left)

\* A seeded fault: build_subtract records its operands exchanged.
build_subtract_swapped(block, left, right) ==
    Built(FreeIfRegister(
              Push(block, [op |-> "Subtract", left |-> right, right |-> left]),
              right),
          left)

\* Block::build_subtract
build_subtract(block, left, right) ==
    Built(FreeIfRegister(
              Push(block, [op |-> "Subtract", left |-> left, right |-> right]),
              right),
          left)

\* Block::build_multiply
build_multiply(block, left, right) ==
    Built(FreeIfRegister(
              Push(block, [op |-> "Multiply", left |-> left, right |-> right]),
              right),
          left)

\* Block::build_divide
build_divide(block, left, right) ==
    Built(FreeIfRegister(
              Push(block, [op |-> "Divide", left |-> left, right |-> right]),
              right),
          left)

\* Block::build_jump
build_jump(block, dest) ==
    Built(Push(block, [op |-> "Jump", dest |-> dest]), None)

\* Block::build_jump_if_zero
build_jump_if_zero(block, value, dest) ==
    Built(FreeIfRegister(
              Push(block, [op |-> "JumpIfZero", value |-> value, dest |-> dest]),
              value),
          None)

\* Block::build_call
build_call(block, func, arg) ==
    Built(Push(block, [op |-> "Call", func |-> func, arg |-> arg]), None)

\* Block::build_exit
build_exit(block, exit_code) ==
    Built(Push(block, [op |-> "Exit", exit_code |-> exit_code]), None)

-----------------------------------------------------------------------------
(* Emitted lines.  A line keeps the literal head and tail of its format    *)
(* string and the operands filled into it; op is the mnemonic the machine  *)
(* executes.  Render gives the text that writeln! writes.                  *)

Lit(r) == [k |-> "lit", lit |-> r]   \* a register named in the format string
Loc(v) == [k |-> "loc", loc |-> v]   \* `{}` filled with ValueRef::code()
Imm(n) == [k |-> "imm", imm |-> n]   \* `{}` filled with an integer
Sym(s) == [k |-> "sym", sym |-> s]   \* `{}` filled with a name

Line(op, pre, args, post) == [op |-> op, pre |-> pre, args |-> args, post |-> post]

RenderOperand(a) ==
    CASE a.k = "lit" -> a.lit
      [] a.k = "loc" -> ValueRef_code(a.loc)
      [] a.k = "imm" -> ToString(a.imm)
      [] a.k = "sym" -> a.sym

Render(line) ==
    LET n == Len(line.args)
        body == IF n = 0 THEN ""
                ELSE IF n = 1 THEN RenderOperand(line.args[1])
                ELSE RenderOperand(line.args[1]) \o ", "
                         \o RenderOperand(line.args[2])
    IN  line.pre \o body \o line.post

Text(lines) == [i \in 1..Len(lines) |-> Render(lines[i])]

RECURSIVE Flatten(_)
Flatten(seqs) ==
    IF seqs = <<>> THEN <<>> ELSE Head(seqs) \o Flatten(Tail(seqs))

-----------------------------------------------------------------------------
(* Block::generate_code, Function::generate_code, Module::generate_code *)

Rax == Register("Rax")
Rdi == Register("Rdi")
Rdx == Register("Rdx")

\* The Divide arm with its two pops exchanged: a seeded fault.
LowerDivide_swapped(left, right) ==
    <<Line("push", "\tpush ", <<Lit("rdx")>>, ""),
      Line("mov", "\tmov ", <<Lit("rdx"), Imm(0)>>, "")>>
    \o (IF left # Rax
        THEN <<Line("push", "\tpush ", <<Lit("rax")>>, ""),
               Line("mov", "\tmov ", <<Lit("rax"), Loc(left)>>, "")>>
        ELSE <<>>)
    \o <<Line("idiv", "\tidiv ", <<Loc(right)>>, "")>>
    \o (IF left # Rax
        THEN <<Line("mov", "\tmov ", <<Loc(left), Lit("rax")>>, ""),
               Line("pop", "\tpop ", <<Lit("rdx")>>, "")>>
        ELSE <<>>)
    \o <<Line("pop", "\tpop ", <<Lit("rax")>>, " ")>>

\* The Divide arm of Block::generate_code
LowerDivide(left, right) ==
    <<Line("push", "\tpush ", <<Lit("rdx")>>, ""),
      Line("mov", "\tmov ", <<Lit("rdx"), Imm(0)>>, "")>>
    \o (IF left # Rax
        THEN <<Line("push", "\tpush ", <<Lit("rax")>>, ""),
               Line("mov", "\tmov ", <<Lit("rax"), Loc(left)>>, "")>>
        ELSE <<>>)
    \o <<Line("idiv", "\tidiv ", <<Loc(right)>>, "")>>
    \o (IF left # Rax
        THEN <<Line("mov", "\tmov ", <<Loc(left), Lit("rax")>>, ""),
               Line("pop", "\tpop ", <<Lit("rax")>>, " ")>>
        ELSE <<>>)
    \o <<Line("pop", "\tpop ", <<Lit("rdx")>>, "")>>

\* The Exit arm without its test of the exit code's location: a seeded fault.
LowerExit_always(exit_code) ==
    <<Line("mov", "\tmov ", <<Lit("rax"), Imm(60)>>, ""),
      Line("mov", "\tmov ", <<Lit("rdi"), Loc(exit_code)>>, ""),
      Line("syscall", "\tsyscall", <<>>, "")>>

\* The Exit arm of Block::generate_code
LowerExit(exit_code) ==
    <<Line("mov", "\tmov ", <<Lit("rax"), Imm(60)>>, "")>>
    \o (IF exit_code # Rdi
        THEN <<Line("mov", "\tmov ", <<Lit("rdi"), Loc(exit_code)>>, "")>>
        ELSE <<>>)
    \o <<Line("syscall", "\tsyscall", <<>>, "")>>

\* The Call arm of Block::generate_code
LowerCall(func, arg) ==
    (IF arg # None /\ arg # Rdi
     THEN <<Line("mov", "\tmov ", <<Lit("rdi"), Loc(arg)>>, "")>>
     ELSE <<>>)
    \o <<Line("call", "\tcall ", <<Sym(func)>>, "")>>

\* The JumpIfZero arm without its comparison: a seeded fault.
LowerJumpIfZero_nocmp(value, dest) ==
    <<Line("je", "\tje ", <<Sym(dest)>>, "")>>

\* The JumpIfZero arm of Block::generate_code
LowerJumpIfZero(value, dest) ==
    <<Line("cmp", "\tcmp QWORD ", <<Loc(value), Imm(0)>>, ""),
      Line("je", "\tje ", <<Sym(dest)>>, "")>>

\* One arm of the match in Block::generate_code
Lower(i) ==
    CASE i.op = "Constant" ->
             <<Line("mov", "\tmov ", <<Loc(i.storage), Imm(i.value)>>, "")>>
      [] i.op = "Alloc" ->
             <<Line("sub", "\tsub ", <<Lit("rsp"), Imm(i.size)>>, "")>>
      [] i.op = "Store" ->
             <<Line("mov", "\tmov ", <<Loc(i.storage), Loc(i.value)>>, "")>>
      [] i.op = "Add" ->
             <<Line("add", "\tadd ", <<Loc(i.left), Loc(i.right)>>, "")>>
      [] i.op = "Subtract" ->
             <<Line("sub", "\tsub ", <<Loc(i.left), Loc(i.right)>>, "")>>
      [] i.op = "Multiply" ->
             <<Line("imul", "\timul ", <<Loc(i.left), Loc(i.right)>>, "")>>
      [] i.op = "Divide" -> LowerDivide(i.left, i.right)
      [] i.op = "Jump" -> <<Line("jmp", "\tjmp ", <<Sym(i.dest)>>, "")>>
      [] i.op = "JumpIfZero" -> LowerJumpIfZero(i.value, i.dest)
      [] i.op = "Call" -> LowerCall(i.func, i.arg)
      [] i.op = "Exit" -> LowerExit(i.exit_code)

\* Block::generate_code
Block_generate_code(block) ==
    <<Line("label", "", <<Sym(block.name)>>, ":")>>
    \o Flatten([i \in 1..Len(block.instructions) |-> Lower(block.instructions[i])])

\* A seeded fault: the blocks are emitted latest appended first.
Function_generate_code_reversed(func, blks) ==
    <<Line("global", "global ", <<Sym(func.name)>>, ""),
      Line("label", "", <<Sym(func.name)>>, ":"),
      Line("push", "\tpush ", <<Lit("rbp")>>, ""),
      Line("mov", "\tmov ", <<Lit("rbp"), Lit("rsp")>>, "")>>
    \o Flatten([i \in 1..Len(func.blocks) |->
                    Block_generate_code(blks[func.blocks[Len(func.blocks) + 1 - i]])])
    \o <<Line("leave", "\tleave", <<>>, "")>>

\* Function::generate_code; blks gives the blocks the function refers to
Function_generate_code(func, blks) ==
    <<Line("global", "global ", <<Sym(func.name)>>, ""),
      Line("label", "", <<Sym(func.name)>>, ":"),
      Line("push", "\tpush ", <<Lit("rbp")>>, ""),
      Line("mov", "\tmov ", <<Lit("rbp"), Lit("rsp")>>, "")>>
    \o Flatten([i \in 1..Len(func.blocks) |->
                    Block_generate_code(blks[func.blocks[i]])])
    \o <<Line("leave", "\tleave", <<>>, "")>>

\* Module::generate_code; fns gives the functions the module refers to
Module_generate_code(mod, fns, blks) ==
    <<Line("segment", "segment .text", <<>>, ""),
      Line("extern", "extern put_int", <<>>, "")>>
    \o Flatten([i \in 1..Len(mod.funcs) |->
                    Function_generate_code(fns[mod.funcs[i]], blks)])

-----------------------------------------------------------------------------
(* Inputs of the builder calls *)

\* Immediates given to build_constant (src/src/main.rs:17, 21, 26 use 0, 10, 1).
Values == {0, 10}
DefaultValue == 10

\* Sizes given to build_alloc (src/src/main.rs:20 uses 8).
Sizes == {0, 8}

\* Jump targets and callee names.
Labels == {".end"}
Callees == {"put_int", "foo"}

\* A caller passes locations that earlier build calls on the block returned
\* (ValueRef is Copy, so a caller can also pass a location it released).
Operands(b) == handed[b]

InstrCount(b) == Len(blocks[b].instructions)

ValueInputs(b) == IF InstrCount(b) < MaxInstr THEN Values ELSE {DefaultValue}

RegsOf(S) == {v.reg : v \in {x \in S : IsRegister(x)}}

-----------------------------------------------------------------------------
(* One builder call on block b: res is what the build function computed,  *)
(* uses are the operands passed, released the operand whose register the   *)
(* call frees, fresh whether the result is a newly allocated register.     *)

Call(b, name, args, res, uses, released, distinct, fresh) ==
    /\ ~panicked
    /\ last' = [op |-> name, block |-> b, args |-> args, ret |-> res.ret]
    /\ panicked' = res.panic
    /\ blocks' = [blocks EXCEPT ![b] = res.block]
    /\ IF res.panic
       THEN UNCHANGED <<handed, live, disciplined>>
       ELSE /\ handed' = [handed EXCEPT ![b] =
                             IF res.ret = None THEN @ ELSE @ \cup {res.ret}]
            /\ live' = [live EXCEPT ![b] =
                           (@ \ RegsOf(released))
                               \cup (IF fresh THEN RegsOf({res.ret}) ELSE {})]
            /\ disciplined' = [disciplined EXCEPT ![b] =
                                  @ /\ RegsOf(uses) \subseteq live[b] /\ distinct]
    /\ UNCHANGED <<moduleVars, machineVars>>

BuildConstant(b, value) ==
    Call(b, "build_constant", <<value>>, build_constant(blocks[b], value),
         {}, {}, TRUE, TRUE)

BuildAlloc(b, size) ==
    Call(b, "build_alloc", <<size>>, build_alloc(blocks[b], size),
         {}, {}, TRUE, FALSE)

BuildStore(b, value, storage) ==
    Call(b, "build_store", <<value, storage>>,
         build_store(blocks[b], value, storage),
         {value, storage}, {value}, value # storage, FALSE)

BuildAdd(b, left, right) ==
    Call(b, "build_add", <<left, right>>, build_add(blocks[b], left, right),
         {left, right}, {right}, left # right, FALSE)

BuildSubtract(b, left, right) ==
    Call(b, "build_subtract", <<left, right>>,
         build_subtract(blocks[b], left, right),
         {left, right}, {right}, left # right, FALSE)

BuildMultiply(b, left, right) ==
    Call(b, "build_multiply", <<left, right>>,
         build_multiply(blocks[b], left, right),
         {left, right}, {right}, left # right, FALSE)

BuildDivide(b, left, right) ==
    Call(b, "build_divide", <<left, right>>,
         build_divide(blocks[b], left, right),
         {left, right}, {right}, left # right, FALSE)

BuildJump(b, dest) ==
    Call(b, "build_jump", <<dest>>, build_jump(blocks[b], dest),
         {}, {}, TRUE, FALSE)

BuildJumpIfZero(b, value, dest) ==
    Call(b, "build_jump_if_zero", <<value, dest>>,
         build_jump_if_zero(blocks[b], value, dest),
         {value}, {value}, TRUE, FALSE)

BuildCall(b, func, arg) ==
    Call(b, "build_call", <<func, arg>>, build_call(blocks[b], func, arg),
         {arg} \ {None}, {}, TRUE, FALSE)

BuildExit(b, exit_code) ==
    Call(b, "build_exit", <<exit_code>>, build_exit(blocks[b], exit_code),
         {exit_code}, {}, TRUE, FALSE)

-----------------------------------------------------------------------------
(* Specification of one block under construction *)

Entry == ".entry"

IdleMachine ==
    /\ asm = <<>>
    /\ pc = 0
    /\ regs = <<>>
    /\ mem = <<>>
    /\ halt = "idle"
    /\ status = 0
    /\ regs0 = <<>>
    /\ mem0 = <<>>
    /\ printed = <<>>

NoModule ==
    /\ funcs = <<>>
    /\ module = [funcs |-> <<>>]
    /\ out = <<>>
    /\ written = <<>>

Init ==
    /\ blocks = (Entry :> Block_new(Entry))
    /\ last = [op |-> "new", block |-> Entry, args |-> <<Entry>>, ret |-> None]
    /\ panicked = FALSE
    /\ handed = (Entry :> {})
    /\ live = (Entry :> {})
    /\ disciplined = (Entry :> TRUE)
    /\ NoModule
    /\ IdleMachine

Room(b) == InstrCount(b) < MaxInstr

Next ==
    \/ \E v \in ValueInputs(Entry) : BuildConstant(Entry, v)
    \/ Room(Entry) /\ \E size \in Sizes : BuildAlloc(Entry, size)
    \/ Room(Entry) /\ \E value, storage \in Operands(Entry) :
           BuildStore(Entry, value, storage)
    \/ Room(Entry) /\ \E left, right \in Operands(Entry) :
           BuildAdd(Entry, left, right)
    \/ Room(Entry) /\ \E left, right \in Operands(Entry) :
           BuildSubtract(Entry, left, right)
    \/ Room(Entry) /\ \E left, right \in Operands(Entry) :
           BuildMultiply(Entry, left, right)
    \/ Room(Entry) /\ \E left, right \in Operands(Entry) :
           BuildDivide(Entry, left, right)
    \/ Room(Entry) /\ \E dest \in Labels : BuildJump(Entry, dest)
    \/ Room(Entry) /\ \E value \in Operands(Entry), dest \in Labels :
           BuildJumpIfZero(Entry, value, dest)
    \/ Room(Entry) /\ \E func \in Callees, arg \in Operands(Entry) \cup {None} :
           BuildCall(Entry, func, arg)
    \/ Room(Entry) /\ \E exit_code \in Operands(Entry) :
           BuildExit(Entry, exit_code)

Spec == Init /\ [][Next]_vars

-----------------------------------------------------------------------------
(* The machine: what the emitted lines do when assembled and run.  Values  *)
(* are two's-complement words of WordBits bits (the machine's are 64 bits  *)
(* wide); rdx:rax, the dividend of idiv, is twice as wide.                 *)

WordBits == 8
Modulus == 2 ^ WordBits
Half == 2 ^ (WordBits - 1)

\* The signed word that x wraps to
Wrap(x) == ((x + Half) % Modulus) - Half

\* The unsigned reading of a signed word
Unsigned(x) == x % Modulus

Abs(x) == IF x < 0 THEN -x ELSE x

\* Signed division truncating toward zero, as idiv does
TruncDiv(a, b) ==
    IF (a < 0) = (b < 0) THEN Abs(a) \div Abs(b) ELSE -(Abs(a) \div Abs(b))

\* Qwords of memory below the frame base: frame slots first, then the stack.
MemWords == 6
Addresses == {-8 * k : k \in 1..MemWords}

AllRegs == MachineRegs \cup {"rsp", "rbp", "zf"}

Machine(p, r, m, h, st) == [pc |-> p, regs |-> r, mem |-> m, halt |-> h, status |-> st]

Fault(m) == [m EXCEPT !.halt = "fault"]

\* The register an operand names, or "" when it names none
OperandReg(a) ==
    CASE a.k = "lit" -> a.lit
      [] a.k = "loc" /\ IsRegister(a.loc) -> Register_name(a.loc.reg)
      [] OTHER -> ""

\* The address a memory operand [rbp-off] names
OperandAddr(m, a) == m.regs["rbp"] - a.loc.off

IsMemOperand(a) == a.k = "loc" /\ IsMemory(a.loc)

\* Whether every memory operand of the line lies in the modelled memory
Addressable(m, args) ==
    \A i \in 1..Len(args) :
        IsMemOperand(args[i]) => OperandAddr(m, args[i]) \in Addresses

Read(m, a) ==
    CASE a.k = "imm" -> a.imm
      [] IsMemOperand(a) -> m.mem[OperandAddr(m, a)]
      [] OTHER -> m.regs[OperandReg(a)]

Write(m, a, v) ==
    IF IsMemOperand(a)
    THEN [m EXCEPT !.mem[OperandAddr(m, a)] = v]
    ELSE [m EXCEPT !.regs[OperandReg(a)] = v]

Advance(m) == [m EXCEPT !.pc = @ + 1]

SetZero(m, v) == [m EXCEPT !.regs["zf"] = IF v = 0 THEN 1 ELSE 0]

\* The line of code that is the label `name:`, or 0
LabelIndex(code, name) ==
    LET hits == {i \in 1..Len(code) :
                    code[i].op = "label" /\ code[i].args[1].sym = name}
    IN  IF hits = {} THEN 0 ELSE CHOOSE i \in hits : \A j \in hits : i <= j

\* idiv src: rdx:rax / src, quotient to rax, remainder to rdx; #DE when the
\* divisor is 0 or the quotient does not fit a signed word.
ExecIdiv(m, src) ==
    LET divisor == Read(m, src)
        dividend == m.regs["rdx"] * Modulus + Unsigned(m.regs["rax"])
        q == TruncDiv(dividend, divisor)
    IN  IF divisor = 0 THEN Fault(m)
        ELSE IF q < -Half \/ q > Half - 1 THEN Fault(m)
        ELSE Advance([m EXCEPT !.regs["rax"] = q,
                               !.regs["rdx"] = dividend - q * divisor])

ExecPush(m, src) ==
    LET sp == m.regs["rsp"] - 8
    IN  IF sp \notin Addresses THEN Fault(m)
        ELSE Advance([m EXCEPT !.regs["rsp"] = sp, !.mem[sp] = Read(m, src)])

ExecPop(m, dst) ==
    LET sp == m.regs["rsp"]
    IN  IF sp \notin Addresses THEN Fault(m)
        ELSE Advance(Write([m EXCEPT !.regs["rsp"] = sp + 8], dst, m.mem[sp]))

\* exit(rdi) when rax holds 60; the status is the low byte of rdi
ExecSyscall(m) ==
    IF m.regs["rax"] = 60
    THEN [m EXCEPT !.halt = "exited", !.status = m.regs["rdi"] % 256]
    ELSE [m EXCEPT !.halt = "unsupported"]

ExecJump(m, code, name) ==
    IF LabelIndex(code, name) = 0 THEN [m EXCEPT !.halt = "unlinked"]
    ELSE [m EXCEPT !.pc = LabelIndex(code, name)]

\* leave: mov rsp, rbp, then pop rbp
ExecLeave(m) ==
    ExecPop([m EXCEPT !.regs["rsp"] = m.regs["rbp"]], Lit("rbp"))

\* The names the code declares `extern`
Externs(code) ==
    {name \in Callees :
        \E i \in 1..Len(code) : Render(code[i]) = "extern " \o name}

\* call name, for a label of the code: push the return address, jump
ExecCall(m, code, name) ==
    LET sp == m.regs["rsp"] - 8
    IN  IF LabelIndex(code, name) = 0 THEN [m EXCEPT !.halt = "unlinked"]
        ELSE IF sp \notin Addresses THEN Fault(m)
        ELSE [m EXCEPT !.regs["rsp"] = sp, !.mem[sp] = m.pc + 1,
                       !.pc = LabelIndex(code, name)]

\* One line of code executed on machine m
Exec(m, code) ==
    LET line == code[m.pc]
        a == line.args
    IN  IF m.pc > Len(code) THEN [m EXCEPT !.halt = "done"]
        ELSE IF ~Addressable(m, a) THEN Fault(m)
        ELSE CASE line.op \in {"label", "global", "segment", "extern"} ->
                      Advance(m)
               [] line.op = "mov" -> Advance(Write(m, a[1], Read(m, a[2])))
               [] line.op = "add" ->
                      LET v == Wrap(Read(m, a[1]) + Read(m, a[2]))
                      IN  Advance(SetZero(Write(m, a[1], v), v))
               [] line.op = "sub" ->
                      LET v == Wrap(Read(m, a[1]) - Read(m, a[2]))
                      IN  Advance(SetZero(Write(m, a[1], v), v))
               [] line.op = "imul" ->
                      Advance(Write(m, a[1], Wrap(Read(m, a[1]) * Read(m, a[2]))))
               [] line.op = "idiv" -> ExecIdiv(m, a[1])
               [] line.op = "push" -> ExecPush(m, a[1])
               [] line.op = "pop" -> ExecPop(m, a[1])
               [] line.op = "cmp" ->
                      Advance(SetZero(m, Wrap(Read(m, a[1]) - Read(m, a[2]))))
               [] line.op = "jmp" -> ExecJump(m, code, a[1].sym)
               [] line.op = "je" ->
                      IF m.regs["zf"] = 1 THEN ExecJump(m, code, a[1].sym)
                      ELSE Advance(m)
               [] line.op = "syscall" -> ExecSyscall(m)
               [] line.op = "leave" -> ExecLeave(m)
               [] line.op = "call" -> ExecCall(m, code, a[1].sym)
               [] OTHER -> [m EXCEPT !.halt = "unsupported"]

\* The line at pc calls a routine that the code declares extern and does not
\* define
AtExternCall ==
    /\ halt = "running"
    /\ pc \in 1..Len(asm)
    /\ asm[pc].op = "call"
    /\ LabelIndex(asm, asm[pc].args[1].sym) = 0
    /\ asm[pc].args[1].sym \in Externs(asm)

\* Registers a called routine need not preserve, and values it may leave there
CallerSaved == {"rax", "rcx", "rdx", "rsi", "rdi", "r8", "r9", "r10", "r11", "zf"}
Clobbers == {0, 99}

\* put_int runs and returns: it is handed rdi, preserves rsp, rbp, the other
\* callee-saved registers and the caller's memory, and may overwrite the rest.
CallExtern ==
    /\ AtExternCall
    /\ printed' = Append(printed, regs["rdi"])
    /\ \E junk \in Clobbers :
           regs' = [r \in DOMAIN regs |-> IF r \in CallerSaved THEN junk ELSE regs[r]]
    /\ pc' = pc + 1
    /\ UNCHANGED <<asm, mem, halt, status, regs0, mem0, builderVars, moduleVars>>

\* The machine executes the line at pc
Step ==
    /\ halt = "running"
    /\ ~AtExternCall
    /\ LET m == Exec(Machine(pc, regs, mem, halt, status), asm)
       IN  /\ pc' = m.pc
           /\ regs' = m.regs
           /\ mem' = m.mem
           /\ halt' = m.halt
           /\ status' = m.status
    /\ UNCHANGED <<asm, regs0, mem0, printed, builderVars, moduleVars>>

-----------------------------------------------------------------------------
(* Specification of the lowering of one instruction and its execution:     *)
(* a Divide or an Exit built on a fresh block with any operand locations,  *)
(* run on a machine whose registers and frame slots hold known values.     *)

\* Locations a caller can pass: every register and two frame slots
FrameBytes == 2 * 8
ValueRefs ==
    {Register(Registers[i]) : i \in 1..Len(Registers)}
        \cup {Memory(8), Memory(FrameBytes)}

\* Values held by the left (or exit code) and right operand locations
LeftValues == {-7, 0, 7, 20}
RightValues == {-2, 0, 1, 3}

\* Every register starts with a value of its own
Signature(r) ==
    IF r \in {"rbp", "zf"} THEN 0
    ELSE IF r = "rsp" THEN -FrameBytes
    ELSE 40 + (CHOOSE i \in 1..Len(Registers) : Register_name(Registers[i]) = r)

StartMachine ==
    Machine(1, [r \in AllRegs |-> Signature(r)],
            [a \in Addresses |-> 60 + ((-a) \div 8)], "running", 0)

\* The machine about to run code with left holding a and right holding b
Loaded(left, a, right, b) ==
    LET m1 == Write(StartMachine, Loc(left), a)
    IN  IF right = left THEN m1 ELSE Write(m1, Loc(right), b)

InitLower(res, m) ==
    /\ blocks = (Entry :> res.block)
    /\ panicked = FALSE
    /\ handed = (Entry :> {})
    /\ live = (Entry :> {})
    /\ disciplined = (Entry :> TRUE)
    /\ NoModule
    /\ asm = <<>>
    /\ pc = 0
    /\ regs = m.regs
    /\ mem = m.mem
    /\ halt = "idle"
    /\ status = m.status
    /\ regs0 = m.regs
    /\ mem0 = m.mem
    /\ printed = <<>>

InitDivide ==
    \E left, right \in ValueRefs, a \in LeftValues, b \in RightValues :
        /\ last = [op |-> "build_divide", block |-> Entry,
                   args |-> <<left, right>>, ret |-> left]
        /\ InitLower(build_divide(Block_new(Entry), left, right),
                     Loaded(left, a, right, b))

InitExit ==
    \E exit_code \in ValueRefs, a \in LeftValues :
        /\ last = [op |-> "build_exit", block |-> Entry,
                   args |-> <<exit_code>>, ret |-> None]
        /\ InitLower(build_exit(Block_new(Entry), exit_code),
                     Loaded(exit_code, a, exit_code, a))

InitLowered == InitDivide \/ InitExit

\* Block::generate_code writes the block's lines; they are assembled and
\* control enters at the block's label.
GenerateBlock ==
    /\ halt = "idle"
    /\ asm' = Block_generate_code(blocks[Entry])
    /\ pc' = 1
    /\ halt' = "running"
    /\ UNCHANGED <<regs, mem, status, regs0, mem0, printed, builderVars, moduleVars>>

NextLower == GenerateBlock \/ Step

SpecLower == InitLowered /\ [][NextLower]_vars

-----------------------------------------------------------------------------
(* Specification of a module under construction: blocks are created and    *)
(* built, appended to functions, the functions appended to the module, and *)
(* the module's code generated.  A function borrows its blocks and the     *)
(* module its functions, so neither changes once appended; names are used  *)
(* once, and nothing is appended after code has been generated.            *)

BlockNames == {".entry", ".loop"}
FuncNames == {"_start", "helper"}

\* Immediates and sizes given to the build calls of this specification
ModuleValues == {DefaultValue}
ModuleSizes == {8}

\* Function::new
Function_new(name) == [name |-> name, blocks |-> <<>>]

\* Function::append_block
Function_append_block(func, block) == [func EXCEPT !.blocks = Append(@, block)]

\* Module::default
Module_default == [funcs |-> <<>>]

\* Module::append_func
Module_append_func(mod, func) == [mod EXCEPT !.funcs = Append(@, func)]

Range(seq) == {seq[i] : i \in 1..Len(seq)}

\* The blocks some function refers to, the functions the module refers to
AppendedBlocks == UNION {Range(funcs[f].blocks) : f \in DOMAIN funcs}
AppendedFuncs == Range(module.funcs)

RECURSIVE SumOver(_, _)
SumOver(S, f) ==
    IF S = {} THEN 0
    ELSE LET x == CHOOSE y \in S : TRUE IN f[x] + SumOver(S \ {x}, f)

TotalInstr == SumOver(DOMAIN blocks, [b \in DOMAIN blocks |-> InstrCount(b)])

Generated == out # <<>>

\* A block that can still be built: not yet borrowed by a function
Open(b) ==
    /\ b \in DOMAIN blocks
    /\ b \notin AppendedBlocks
    /\ ~Generated
    /\ TotalInstr < MaxModInstr

NewBlock(name) ==
    /\ ~Generated
    /\ name \notin DOMAIN blocks
    /\ blocks' = blocks @@ (name :> Block_new(name))
    /\ handed' = handed @@ (name :> {})
    /\ live' = live @@ (name :> {})
    /\ disciplined' = disciplined @@ (name :> TRUE)
    /\ last' = [op |-> "Block::new", block |-> name, args |-> <<name>>, ret |-> None]
    /\ UNCHANGED <<panicked, moduleVars, machineVars>>

NewFunction(name) ==
    /\ ~Generated
    /\ ~panicked
    /\ name \notin DOMAIN funcs
    /\ funcs' = funcs @@ (name :> Function_new(name))
    /\ UNCHANGED <<module, out, written, builderVars, machineVars>>

AppendBlock(f, b) ==
    /\ ~Generated
    /\ ~panicked
    /\ f \in DOMAIN funcs
    /\ f \notin AppendedFuncs
    /\ b \in DOMAIN blocks
    /\ b \notin AppendedBlocks
    /\ funcs' = [funcs EXCEPT ![f] = Function_append_block(@, b)]
    /\ UNCHANGED <<module, out, written, builderVars, machineVars>>

AppendFunc(f) ==
    /\ ~Generated
    /\ ~panicked
    /\ f \in DOMAIN funcs
    /\ f \notin AppendedFuncs
    /\ module' = Module_append_func(module, f)
    /\ UNCHANGED <<funcs, out, written, builderVars, machineVars>>

\* One generate_code call: what it was called on and the text it wrote
Written(level, target, text) == [level |-> level, target |-> target, text |-> text]

GenerateCode ==
    /\ ~panicked
    /\ Len(written) < MaxWrites
    /\ out' = Text(Module_generate_code(module, funcs, blocks))
    /\ written' = Append(written, Written("Module", "", out'))
    /\ UNCHANGED <<funcs, module, builderVars, machineVars>>

InitModule ==
    /\ blocks = <<>>
    /\ last = [op |-> "Module::default", block |-> "", args |-> <<>>, ret |-> None]
    /\ panicked = FALSE
    /\ handed = <<>>
    /\ live = <<>>
    /\ disciplined = <<>>
    /\ funcs = <<>>
    /\ module = Module_default
    /\ out = <<>>
    /\ written = <<>>
    /\ IdleMachine

NextModule ==
    \/ \E name \in BlockNames : NewBlock(name)
    \/ \E name \in FuncNames : NewFunction(name)
    \/ \E f \in FuncNames, b \in BlockNames : AppendBlock(f, b)
    \/ \E f \in FuncNames : AppendFunc(f)
    \/ ~Generated /\ GenerateCode
    \/ \E b \in BlockNames, v \in ModuleValues : Open(b) /\ BuildConstant(b, v)
    \/ \E b \in BlockNames, size \in ModuleSizes : Open(b) /\ BuildAlloc(b, size)
    \/ \E b \in BlockNames : Open(b) /\ \E value, storage \in Operands(b) :
           BuildStore(b, value, storage)
    \/ \E b \in BlockNames : Open(b) /\ \E left, right \in Operands(b) :
           BuildAdd(b, left, right)
    \/ \E b \in BlockNames : Open(b) /\ \E left, right \in Operands(b) :
           BuildSubtract(b, left, right)
    \/ \E b \in BlockNames : Open(b) /\ \E left, right \in Operands(b) :
           BuildMultiply(b, left, right)
    \/ \E b \in BlockNames : Open(b) /\ \E left, right \in Operands(b) :
           BuildDivide(b, left, right)
    \/ \E b \in BlockNames, dest \in Labels : Open(b) /\ BuildJump(b, dest)
    \/ \E b \in BlockNames : Open(b) /\ \E value \in Operands(b), dest \in Labels :
           BuildJumpIfZero(b, value, dest)
    \/ \E b \in BlockNames : Open(b)
           /\ \E func \in Callees, arg \in Operands(b) \cup {None} :
                  BuildCall(b, func, arg)
    \/ \E b \in BlockNames : Open(b) /\ \E exit_code \in Operands(b) :
           BuildExit(b, exit_code)

SpecModule == InitModule /\ [][NextModule]_vars

-----------------------------------------------------------------------------
(* Properties of the builder, checked under Spec *)

NumRegs == Len(RegisterAlloc_new.free_regs)

EntryBlock == blocks[Entry]

OnlyConstants(block) ==
    \A i \in 1..Len(block.instructions) : block.instructions[i].op = "Constant"

\* The lines of code that read `mov <reg>, <imm>`
MoveImmediates(code) ==
    {i \in 1..Len(code) :
        \E r \in MachineRegs, v \in Values :
            Render(code[i]) = "\tmov " \o r \o ", " \o ToString(v)}

\* The destination written in a `mov <reg>, <imm>` line
Destination(line) ==
    CHOOSE r \in MachineRegs :
        \E v \in Values : Render(line) = "\tmov " \o r \o ", " \o ToString(v)

\* C1: n <= 14 calls of build_constant on a fresh block, and nothing else,
\* give code with exactly n `mov <reg>, <imm>` lines whose destination
\* registers are pairwise distinct.
C1_ConstantsUseDistinctRegisters ==
    LET n == Len(EntryBlock.instructions)
        code == Block_generate_code(EntryBlock)
        movs == MoveImmediates(code)
    IN  (OnlyConstants(EntryBlock) /\ n <= NumRegs) =>
            /\ Cardinality(movs) = n
            /\ Len(code) = n + 1
            /\ \A i, j \in movs :
                   i # j => Destination(code[i]) # Destination(code[j])

\* Fourteen constants were built on the fresh block and every register is used.
C1_Witness ==
    /\ OnlyConstants(EntryBlock)
    /\ Len(EntryBlock.instructions) = NumRegs
    /\ last.op = "build_constant"
    /\ last.ret = Rdi
    /\ Cardinality(MoveImmediates(Block_generate_code(EntryBlock))) = NumRegs

BinaryBuilders ==
    {"build_add", "build_subtract", "build_multiply", "build_divide"}

BinaryInstructions == {"Add", "Subtract", "Multiply", "Divide"}

\* A step of Spec that is a call of one of the builders in names
CallStep(names) ==
    /\ last'.op \in names
    /\ blocks' # blocks \/ panicked' # panicked

\* C2: each of build_add, build_subtract, build_multiply and build_divide
\* returns its left argument; a Register right argument is released so that
\* the very next build_constant returns exactly that register; a Memory right
\* argument leaves the register free list unchanged.
C2_BinaryReturnsLeftReleasesRight ==
    [][CallStep(BinaryBuilders) =>
          LET left == last'.args[1]
              right == last'.args[2]
          IN  /\ last'.ret = left
              /\ IsRegister(right) =>
                     /\ build_constant(blocks'[Entry], DefaultValue).ret = right
                     /\ ~build_constant(blocks'[Entry], DefaultValue).panic
              /\ IsMemory(right) =>
                     blocks'[Entry].registers.free_regs
                         = blocks[Entry].registers.free_regs]_vars

\* A binary builder released its right register and the build_constant that
\* followed returned that register.
C2_Witness ==
    LET ins == EntryBlock.instructions
        n == Len(ins)
    IN  /\ n >= 3
        /\ last.op = "build_constant"
        /\ ins[n - 1].op \in BinaryInstructions
        /\ IsRegister(ins[n - 1].right)
        /\ ins[n - 1].left # ins[n - 1].right
        /\ last.ret = ins[n - 1].right
        /\ ins[n].storage = ins[n - 1].right

\* C3: while every location is used only while live, build_constant never
\* returns a register held by a live value, and with all 14 registers live it
\* fails fatally, appending no instruction and returning no location.
C3_NoLiveRegisterHandedOut ==
    [][(CallStep({"build_constant"}) /\ disciplined[Entry]) =>
          /\ ~panicked' =>
                 /\ IsRegister(last'.ret)
                 /\ last'.ret.reg \notin live[Entry]
          /\ Cardinality(live[Entry]) = NumRegs =>
                 /\ panicked'
                 /\ blocks' = blocks
                 /\ last'.ret = None]_vars

\* A disciplined caller that released a register along the way made all 14
\* registers live, and the next build_constant panicked.
C3_Witness ==
    /\ panicked
    /\ disciplined[Entry]
    /\ Cardinality(live[Entry]) = NumRegs
    /\ last.op = "build_constant"
    /\ \E i \in 1..Len(EntryBlock.instructions) :
           /\ EntryBlock.instructions[i].op \in BinaryInstructions
           /\ IsRegister(EntryBlock.instructions[i].right)

RECURSIVE SumSizes(_)
SumSizes(ins) ==
    IF ins = <<>> THEN 0
    ELSE (IF Head(ins).op = "Alloc" THEN Head(ins).size ELSE 0)
             + SumSizes(Tail(ins))

EarlierOffsets == {v.off : v \in {x \in handed[Entry] : IsMemory(x)}}

\* C8 as stated: every offset build_alloc returns is strictly greater than
\* every offset returned earlier by the block and equals the sum of the sizes
\* requested so far.
C8_Original_OffsetsStrictlyIncrease ==
    [][CallStep({"build_alloc"}) =>
          /\ last'.ret.off = SumSizes(blocks'[Entry].instructions)
          /\ \A o \in EarlierOffsets : last'.ret.off > o]_vars

\* C8, amended: every offset build_alloc returns equals the sum of the sizes
\* requested so far and is no smaller than any offset returned earlier; it is
\* strictly greater than every earlier offset when the size requested is
\* positive.
C8_OffsetsAreRunningSums ==
    [][CallStep({"build_alloc"}) =>
          /\ IsMemory(last'.ret)
          /\ last'.ret.off = SumSizes(blocks'[Entry].instructions)
          /\ \A o \in EarlierOffsets : last'.ret.off >= o
          /\ last'.args[1] > 0 =>
                 \A o \in EarlierOffsets : last'.ret.off > o]_vars

\* Three reservations, the last two of positive size, returned three offsets.
C8_Witness ==
    /\ last.op = "build_alloc"
    /\ last.args[1] > 0
    /\ Cardinality(EarlierOffsets) >= 2
    /\ \A o \in EarlierOffsets \ {last.ret.off} : last.ret.off > o
    /\ last.ret.off = SumSizes(EntryBlock.instructions)

-----------------------------------------------------------------------------
(* Properties of the lowering, checked under SpecLower *)

\* The instruction whose lowering runs
Lowered == EntryBlock.instructions[1]

\* What location v held when execution started, and what it holds now
ValueAtStart(v) ==
    IF IsRegister(v) THEN regs0[Register_name(v.reg)]
    ELSE mem0[regs0["rbp"] - v.off]

ValueNow(v) ==
    IF IsRegister(v) THEN regs[Register_name(v.reg)]
    ELSE mem[regs["rbp"] - v.off]

\* C4: the lowering of Divide, run to its end for any operand locations,
\* leaves rdx with the value it had before, leaves every register other than
\* the left operand's own location with its value from before, and leaves
\* rsp (and rbp) unchanged.
C4_DividePreservesRegisters ==
    (Lowered.op = "Divide" /\ halt = "done") =>
        /\ regs["rdx"] = regs0["rdx"]
        /\ \A r \in MachineRegs :
               \/ IsRegister(Lowered.left) /\ Register_name(Lowered.left.reg) = r
               \/ regs[r] = regs0[r]
        /\ regs["rsp"] = regs0["rsp"]
        /\ regs["rbp"] = regs0["rbp"]

\* A Divide whose left operand is neither rax nor rdx has run to its end and
\* has written a new value, the quotient, to its left operand.
C4_Witness ==
    /\ Lowered.op = "Divide"
    /\ halt = "done"
    /\ IsRegister(Lowered.left)
    /\ Lowered.left \notin {Rax, Rdx}
    /\ IsRegister(Lowered.right)
    /\ ValueAtStart(Lowered.left) = 20
    /\ ValueAtStart(Lowered.right) = 3
    /\ ValueNow(Lowered.left) = 6
    /\ regs["rax"] = regs0["rax"]
    /\ regs["rdx"] = regs0["rdx"]

\* C5 as stated: with a non-negative dividend and a positive divisor in
\* distinct locations, the lowering of Divide runs to its end without a
\* fault and leaves in left the truncating quotient of the two values.
C5_Original_DivideYieldsQuotient ==
    (/\ Lowered.op = "Divide"
     /\ Lowered.left # Lowered.right
     /\ ValueAtStart(Lowered.left) >= 0
     /\ ValueAtStart(Lowered.right) > 0) =>
        /\ halt # "fault"
        /\ halt = "done" =>
               ValueNow(Lowered.left)
                   = TruncDiv(ValueAtStart(Lowered.left), ValueAtStart(Lowered.right))

\* The lines of the lowered instruction, without the block's label line
LoweredText == IF asm = <<>> THEN <<>> ELSE Tail(Text(asm))

\* C6: the lowering of Exit writes `mov rax, 60` first and `syscall` last,
\* and `mov rdi, <exit_code>` between them exactly when exit_code is not
\* Register(Rdi).
C6_ExitLowering ==
    (Lowered.op = "Exit" /\ asm # <<>>) =>
        LET t == LoweredText
            n == Len(t)
            move == "\tmov rdi, " \o ValueRef_code(Lowered.exit_code)
        IN  /\ n >= 2
            /\ t[1] = "\tmov rax, 60"
            /\ t[n] = "\tsyscall"
            /\ (\E i \in 2..(n - 1) : t[i] = move) <=> (Lowered.exit_code # Rdi)
            /\ n = IF Lowered.exit_code # Rdi THEN 3 ELSE 2

\* An Exit whose code is already in rdi was lowered without a move, and ran.
C6_Witness ==
    /\ Lowered.op = "Exit"
    /\ Lowered.exit_code = Rdi
    /\ LoweredText = <<"\tmov rax, 60", "\tsyscall">>
    /\ halt = "exited"

\* C7 as stated: the lowering of Exit ends the process with the value the
\* exit_code location held just before, for every location a build call can
\* return.
C7_Original_ExitStatusIsExitCode ==
    (/\ Lowered.op = "Exit"
     /\ halt = "exited"
     /\ ValueAtStart(Lowered.exit_code) \in 0..255) =>
        status = ValueAtStart(Lowered.exit_code)

-----------------------------------------------------------------------------
(* Properties of the generated module, checked under SpecModule *)

\* The instructions of the blocks of function f, in emission order
FunctionInstructions(f) ==
    Flatten([i \in 1..Len(funcs[f].blocks) |->
                 blocks[funcs[f].blocks[i]].instructions])

ModuleInstructions ==
    Flatten([i \in 1..Len(module.funcs) |-> FunctionInstructions(module.funcs[i])])

Allocs(ins) == {i \in 1..Len(ins) : ins[i].op = "Alloc"}

\* The lines of text that read `sub rsp, <n>`
FrameAdjustments(text) ==
    {i \in 1..Len(text) :
        \E n \in 0..(8 * (MaxModInstr + 1)) :
            text[i] = "\tsub rsp, " \o ToString(n)}

FunctionText(f) == Text(Function_generate_code(funcs[f], blocks))

\* C9 as stated: when a function whose blocks contain several Alloc
\* instructions is lowered, its text holds a single `sub rsp, <total>`, at
\* function entry right after the prologue, not one line per reservation.
C9_Original_ReservationsCoalesced ==
    Generated =>
        \A f \in AppendedFuncs :
            Cardinality(Allocs(FunctionInstructions(f))) >= 2 =>
                /\ Cardinality(FrameAdjustments(FunctionText(f))) = 1
                /\ FunctionText(f)[5]
                       = "\tsub rsp, " \o ToString(SumSizes(FunctionInstructions(f)))

\* The callee names of the Call instructions in the module
CalledNames ==
    {ModuleInstructions[i].func :
        i \in {j \in 1..Len(ModuleInstructions) : ModuleInstructions[j].op = "Call"}}

\* C10 as stated: the module's text holds the text-segment directive exactly
\* once, an `extern <name>` line for every name a Call instruction of the
\* module uses, and a `global <name>` line for every appended function.
C10_Original_HeaderDeclaresNames ==
    Generated =>
        /\ Cardinality({i \in 1..Len(out) : out[i] = "segment .text"}) = 1
        /\ \A name \in CalledNames : "extern " \o name \in Range(out)
        /\ \A f \in AppendedFuncs : "global " \o funcs[f].name \in Range(out)

-----------------------------------------------------------------------------
(* Specification of the register allocator in use: constants are built and *)
(* registers released, by one-operand and two-operand builders, in any     *)
(* order, with any location handed out so far as an operand.               *)

RoomReuse == InstrCount(Entry) < MaxReuseInstr

NextReuse ==
    \/ BuildConstant(Entry, DefaultValue)
    \/ RoomReuse /\ \E value \in Operands(Entry), dest \in Labels :
           BuildJumpIfZero(Entry, value, dest)
    \/ RoomReuse /\ \E left, right \in Operands(Entry) :
           BuildSubtract(Entry, left, right)

SpecReuse == Init /\ [][NextReuse]_vars

\* The order in which a fresh block hands out its registers
InitialOrder ==
    <<"R15", "R14", "R13", "R12", "R11", "R10", "R9", "R8", "Rax", "Rbx",
      "Rcx", "Rdx", "Rsi", "Rdi">>

Front(seq) == SubSeq(seq, 1, Len(seq) - 1)

\* The register whose release instruction i records, or "" when it records none
Released(i) ==
    CASE i.op \in BinaryInstructions /\ IsRegister(i.right) -> i.right.reg
      [] i.op \in {"Store", "JumpIfZero"} /\ IsRegister(i.value) -> i.value.reg
      [] OTHER -> ""

\* The releases not yet re-allocated after the calls recorded in ins, oldest
\* first: an allocation takes up the latest release outstanding.
RECURSIVE Outstanding(_)
Outstanding(ins) ==
    IF ins = <<>> THEN <<>>
    ELSE LET before == Outstanding(Front(ins))
             i == ins[Len(ins)]
         IN  IF i.op = "Constant"
             THEN (IF before = <<>> THEN <<>> ELSE Front(before))
             ELSE IF Released(i) # "" THEN Append(before, Released(i))
             ELSE before

\* The number of allocations made while no release was outstanding
RECURSIVE FreshCount(_)
FreshCount(ins) ==
    IF ins = <<>> THEN 0
    ELSE FreshCount(Front(ins))
             + (IF ins[Len(ins)].op = "Constant" /\ Outstanding(Front(ins)) = <<>>
                THEN 1 ELSE 0)

\* C11: after any sequence of releases and allocations on a block,
\* build_constant returns the register of the latest release that no later
\* allocation has taken up; when no release is outstanding it returns the
\* next register of the order R15, R14, R13, R12, R11, R10, R9, R8, Rax, Rbx,
\* Rcx, Rdx, Rsi, Rdi, and fails once that order is used up.
C11_ReleasesReusedLastInFirstOut ==
    [][CallStep({"build_constant"}) =>
          LET ins == blocks[Entry].instructions
              due == Outstanding(ins)
              fresh == FreshCount(ins)
          IN  IF due # <<>>
              THEN ~panicked' /\ last'.ret = Register(due[Len(due)])
              ELSE IF fresh < Len(InitialOrder)
              THEN ~panicked' /\ last'.ret = Register(InitialOrder[fresh + 1])
              ELSE panicked']_vars

\* Two registers were released one after the other; the next two constants
\* took them in reverse order and the third took the next fresh register.
C11_Witness ==
    LET ins == EntryBlock.instructions
        n == Len(ins)
    IN  /\ n >= 7
        /\ Released(ins[n - 4]) # ""
        /\ Released(ins[n - 3]) # ""
        /\ Released(ins[n - 4]) # Released(ins[n - 3])
        /\ \A k \in 0..2 : ins[n - k].op = "Constant"
        /\ ins[n - 2].storage = Register(Released(ins[n - 3]))
        /\ ins[n - 1].storage = Register(Released(ins[n - 4]))
        /\ Outstanding(SubSeq(ins, 1, n - 1)) = <<>>
        /\ last.ret = Register(InitialOrder[FreshCount(ins)])
        /\ last.ret \notin {ins[n - 1].storage, ins[n - 2].storage}

-----------------------------------------------------------------------------
(* Specification of two blocks created with the same name and built side   *)
(* by side, each by build calls of its own; then both are appended to one  *)
(* function, the function to a module, and generate_code is called on the  *)
(* blocks, the function and the module, any of them more than once.        *)

\* The second block; both blocks are named Entry
Twin == "twin"
Twins == {Entry, Twin}

TwinFunc == "_start"

\* A block that can still be built: no function borrows it yet
OpenTwin(h) ==
    /\ funcs = <<>>
    /\ written = <<>>
    /\ InstrCount(h) < MaxTwinInstr

\* Function::new, Function::append_block twice, Module::append_func
WrapTwins ==
    /\ funcs = <<>>
    /\ funcs' = (TwinFunc :>
                    Function_append_block(
                        Function_append_block(Function_new(TwinFunc), Entry), Twin))
    /\ module' = Module_append_func(module, TwinFunc)
    /\ UNCHANGED <<out, written, builderVars, machineVars>>

\* A seeded fault: generating a block's code takes its instructions away.
GenerateBlockCode_draining(h) ==
    /\ Len(written) < MaxWrites
    /\ out' = Text(Block_generate_code(blocks[h]))
    /\ written' = Append(written, Written("Block", h, out'))
    /\ blocks' = [blocks EXCEPT ![h].instructions = <<>>]
    /\ UNCHANGED <<funcs, module, last, panicked, handed, live, disciplined,
                   machineVars>>

\* Block::generate_code on block h
GenerateBlockCode(h) ==
    /\ Len(written) < MaxWrites
    /\ out' = Text(Block_generate_code(blocks[h]))
    /\ written' = Append(written, Written("Block", h, out'))
    /\ UNCHANGED <<funcs, module, builderVars, machineVars>>

\* Function::generate_code on function f
GenerateFunctionCode(f) ==
    /\ f \in DOMAIN funcs
    /\ Len(written) < MaxWrites
    /\ out' = Text(Function_generate_code(funcs[f], blocks))
    /\ written' = Append(written, Written("Function", f, out'))
    /\ UNCHANGED <<funcs, module, builderVars, machineVars>>

InitTwin ==
    /\ blocks = [h \in Twins |-> Block_new(Entry)]
    /\ last = [op |-> "new", block |-> Twin, args |-> <<Entry>>, ret |-> None]
    /\ panicked = FALSE
    /\ handed = [h \in Twins |-> {}]
    /\ live = [h \in Twins |-> {}]
    /\ disciplined = [h \in Twins |-> TRUE]
    /\ NoModule
    /\ IdleMachine

NextTwin ==
    \/ \E h \in Twins, v \in ModuleValues : OpenTwin(h) /\ BuildConstant(h, v)
    \/ \E h \in Twins, size \in ModuleSizes : OpenTwin(h) /\ BuildAlloc(h, size)
    \/ \E h \in Twins : OpenTwin(h) /\ \E left, right \in Operands(h) :
           BuildAdd(h, left, right)
    \/ WrapTwins
    \/ \E h \in Twins : GenerateBlockCode(h)
    \/ GenerateFunctionCode(TwinFunc)
    \/ funcs # <<>> /\ GenerateCode

SpecTwin == InitTwin /\ [][NextTwin]_vars

\* The build call that appended instruction i: the instruction without the
\* location the call itself chose
CallOf(i) ==
    IF i.op = "Constant" THEN [op |-> i.op, value |-> i.value] ELSE i

CallsOf(block) ==
    [k \in 1..Len(block.instructions) |-> CallOf(block.instructions[k])]

-----------------------------------------------------------------------------
(* Order of instructions and of emitted text, checked under SpecModule *)

BuilderNames ==
    {"build_constant", "build_alloc", "build_store", "build_add",
     "build_subtract", "build_multiply", "build_divide", "build_jump",
     "build_jump_if_zero", "build_call", "build_exit"}

\* The instruction a builder pushes
InstructionOf(name) ==
    CASE name = "build_constant" -> "Constant"
      [] name = "build_alloc" -> "Alloc"
      [] name = "build_store" -> "Store"
      [] name = "build_add" -> "Add"
      [] name = "build_subtract" -> "Subtract"
      [] name = "build_multiply" -> "Multiply"
      [] name = "build_divide" -> "Divide"
      [] name = "build_jump" -> "Jump"
      [] name = "build_jump_if_zero" -> "JumpIfZero"
      [] name = "build_call" -> "Call"
      [] name = "build_exit" -> "Exit"

\* The text of block b as the claim lays it out: its label, then the
\* lowering of each instruction in the order of the build calls
BlockLayout(b) ==
    <<blocks[b].name \o ":">>
    \o Flatten([k \in 1..Len(blocks[b].instructions) |->
                    Text(Lower(blocks[b].instructions[k]))])

\* The text of function f as the claim lays it out
FunctionLayout(f) ==
    <<"global " \o funcs[f].name, funcs[f].name \o ":", "\tpush rbp",
      "\tmov rbp, rsp">>
    \o Flatten([k \in 1..Len(funcs[f].blocks) |-> BlockLayout(funcs[f].blocks[k])])
    \o <<"\tleave">>

\* C13: each build call appends exactly one instruction, of its own kind, at
\* the end of its block and leaves the earlier instructions and the other
\* blocks as they were; the text of a function is `global <name>`, its label,
\* `push rbp`, `mov rbp, rsp`, then for each block in append order its label
\* and the lowerings of its instructions in build order, then `leave`, and
\* holds no `ret` line.
C13_InstructionsAndTextInOrder ==
    /\ [][(CallStep(BuilderNames) /\ ~panicked') =>
              LET b == last'.block
                  before == blocks[b].instructions
                  after == blocks'[b].instructions
              IN  /\ Len(after) = Len(before) + 1
                  /\ SubSeq(after, 1, Len(before)) = before
                  /\ after[Len(after)].op = InstructionOf(last'.op)
                  /\ \A c \in DOMAIN blocks \ {b} : blocks'[c] = blocks[c]]_vars
    /\ [](\A f \in DOMAIN funcs :
              /\ FunctionText(f) = FunctionLayout(f)
              /\ "\tret" \notin Range(FunctionText(f))
              /\ Generated /\ module.funcs = <<f>> =>
                     SubSeq(out, 3, Len(out)) = FunctionLayout(f))

\* Code was generated for a function to which .loop was appended before
\* .entry, each block holding one instruction.
C13_Witness ==
    /\ Generated
    /\ module.funcs = <<"_start">>
    /\ funcs["_start"].blocks = <<".loop", ".entry">>
    /\ Len(blocks[".loop"].instructions) = 1
    /\ Len(blocks[".entry"].instructions) = 1
    /\ blocks[".entry"].instructions[1].op = "Alloc"
    /\ out = <<"segment .text", "extern put_int", "global _start", "_start:",
               "\tpush rbp", "\tmov rbp, rsp", ".loop:", "\tmov r15, 10",
               ".entry:", "\tsub rsp, 8", "\tleave">>

-----------------------------------------------------------------------------
(* Specification of whole programs: blocks are built, appended to the      *)
(* function _start and the function to a module; the module's code is      *)
(* generated, assembled and linked, and runs from the function's entry.    *)

StartSymbol == "_start"

\* What a program is made of
Program(blks, fn, mod) == [blocks |-> blks, funcs |-> fn, module |-> mod]

\* A function named StartSymbol of the blocks in order, in a module of its own
Wrapped(order, blks) ==
    LET RECURSIVE AppendAll(_, _)
        AppendAll(func, rest) ==
            IF rest = <<>> THEN func
            ELSE AppendAll(Function_append_block(func, Head(rest).name), Tail(rest))
    IN  Program([n \in {order[i].name : i \in 1..Len(order)} |->
                     blks[CHOOSE i \in 1..Len(order) : order[i].name = n]],
                (StartSymbol :> AppendAll(Function_new(StartSymbol), order)),
                Module_append_func(Module_default, StartSymbol))

\* The program that main builds, counting down from `from`
MainProgram(from) ==
    LET entry0 == Block_new(".entry")
        end0 == Block_new(".end")
        exit_code == build_constant(end0, 0)
        end2 == build_exit(exit_code.block, exit_code.ret)
        var == build_alloc(entry0, 8)
        val == build_constant(var.block, from)
        entry3 == build_store(val.block, val.ret, var.ret)
        loop0 == Block_new(".loop")
        loop1 == build_call(loop0, "put_int", var.ret)
        one == build_constant(loop1.block, 1)
        loop3 == build_subtract(one.block, var.ret, one.ret)
        loop4 == build_jump_if_zero(loop3.block, var.ret, end2.block.name)
        loop5 == build_jump(loop4.block, loop4.block.name)
        order == <<entry3.block, loop5.block, end2.block>>
    IN  Wrapped(order, order)

\* Values tested by a conditional jump; the statuses of the two paths
BranchValues == {-1, 0, 1}
TakenStatus == 10
FallThroughStatus == 1

\* A block that loads v, into a register or through it into a frame slot,
\* and jumps to .end if it is zero; .end loads TakenStatus and exits.  With
\* withElse a block that exits with FallThroughStatus lies between the two.
BranchProgram(v, inMemory, withElse) ==
    LET entry0 == Block_new(".entry")
        var == build_alloc(entry0, 8)
        val == build_constant(IF inMemory THEN var.block ELSE entry0, v)
        stored == build_store(val.block, val.ret, var.ret)
        tested == IF inMemory THEN var.ret ELSE val.ret
        entry == build_jump_if_zero(IF inMemory THEN stored.block ELSE val.block,
                                    tested, ".end")
        else0 == build_constant(Block_new(".else"), FallThroughStatus)
        else1 == build_exit(else0.block, else0.ret)
        end0 == build_constant(Block_new(".end"), TakenStatus)
        end1 == build_exit(end0.block, end0.ret)
        order == IF withElse THEN <<entry.block, else1.block, end1.block>>
                 ELSE <<entry.block, end1.block>>
    IN  Wrapped(order, order)

Programs ==
    {MainProgram(10)}
        \cup {BranchProgram(v, m, e) : v \in BranchValues, m \in BOOLEAN, e \in BOOLEAN}

\* The machine when control enters the program: nothing of the frame exists
EntryMachine == [StartMachine EXCEPT !.regs["rsp"] = 0]

InitProgram ==
    \E p \in Programs :
        /\ blocks = p.blocks
        /\ last = [op |-> "append_func", block |-> "", args |-> <<StartSymbol>>,
                   ret |-> None]
        /\ panicked = FALSE
        /\ handed = [b \in DOMAIN p.blocks |-> {}]
        /\ live = [b \in DOMAIN p.blocks |-> {}]
        /\ disciplined = [b \in DOMAIN p.blocks |-> TRUE]
        /\ funcs = p.funcs
        /\ module = p.module
        /\ out = <<>>
        /\ written = <<>>
        /\ asm = <<>>
        /\ pc = 0
        /\ regs = EntryMachine.regs
        /\ mem = EntryMachine.mem
        /\ halt = "idle"
        /\ status = 0
        /\ regs0 = EntryMachine.regs
        /\ mem0 = EntryMachine.mem
        /\ printed = <<>>

\* Module::generate_code writes the program's text; it is assembled and
\* linked, and control enters at StartSymbol.
Assemble ==
    /\ halt = "idle"
    /\ asm' = Module_generate_code(module, funcs, blocks)
    /\ out' = Text(asm')
    /\ written' = Append(written, Written("Module", "", out'))
    /\ pc' = LabelIndex(asm', StartSymbol)
    /\ halt' = "running"
    /\ UNCHANGED <<funcs, module, regs, mem, status, regs0, mem0, printed,
                   builderVars>>

NextProgram == Assemble \/ Step \/ CallExtern

SpecProgram == InitProgram /\ [][NextProgram]_vars

\* The machine keeps executing while it can
FairProgram == SpecProgram /\ WF_vars(NextProgram)

-----------------------------------------------------------------------------
(* Properties of running programs, checked under FairProgram *)

IsMain == ".loop" \in DOMAIN blocks
IsBranch == ~IsMain
HasElse == ".else" \in DOMAIN blocks

\* The value the branch program loads and tests
TestedValue ==
    LET ins == blocks[Entry].instructions
    IN  ins[CHOOSE k \in 1..Len(ins) : ins[k].op = "Constant"].value

\* C14: when the lowering of JumpIfZero{value, dest} is executed, control
\* goes to the label of block dest if the value location holds 0 and to the
\* next emitted line otherwise; so a program whose first block loads 0 and
\* jumps-if-zero to a block that loads 10 and exits ends with status 10,
\* also when a block exiting with another status lies between the two, and
\* a program that loads a non-zero value ends on the fall-through path.
C14_JumpIfZeroBranches ==
    /\ [][(halt = "running" /\ pc \in 2..Len(asm) /\ asm[pc].op = "je") =>
              LET value == asm[pc - 1].args[1].loc
                  dest == asm[pc].args[1].sym
              IN  /\ asm[pc - 1].op = "cmp"
                  /\ halt' = "running"
                  /\ asm[LabelIndex(asm, dest)] = Line("label", "", <<Sym(dest)>>, ":")
                  /\ pc' = IF ValueNow(value) = 0 THEN LabelIndex(asm, dest)
                           ELSE pc + 1]_vars
    /\ []((IsBranch /\ halt # "running" /\ halt # "idle") =>
              /\ halt = "exited"
              /\ status = IF TestedValue = 0 \/ ~HasElse THEN TakenStatus
                          ELSE FallThroughStatus)
    /\ (IsBranch ~> (halt = "exited"))

\* The program that stores 0 in a frame slot and jumps-if-zero over a block
\* exiting with status 1 has exited with status 10.
C14_Witness ==
    /\ IsBranch
    /\ HasElse
    /\ TestedValue = 0
    /\ \E k \in 1..Len(blocks[Entry].instructions) :
           /\ blocks[Entry].instructions[k].op = "JumpIfZero"
           /\ IsMemory(blocks[Entry].instructions[k].value)
    /\ halt = "exited"
    /\ status = TakenStatus
    /\ TakenStatus # FallThroughStatus

\* What main's program prints: 10, 9, ..., 1
Countdown == [i \in 1..10 |-> 11 - i]

\* C16: the program built in main, run from the function entry with a
\* put_int that preserves rbp, rsp and the frame, never faults, prints
\* nothing but 10, 9, ..., 1 in this order, and eventually reaches the exit
\* syscall, with status 0 and after exactly 10 calls of put_int.
C16_MainCountsDownAndExits ==
    /\ [](IsMain =>
              /\ halt \in {"idle", "running", "exited"}
              /\ Len(printed) <= Len(Countdown)
              /\ printed = SubSeq(Countdown, 1, Len(printed))
              /\ halt = "exited" => (status = 0 /\ printed = Countdown))
    /\ (IsMain ~> (halt = "exited"))

\* main's program has exited with status 0 after printing 10, 9, ..., 1.
C16_Witness ==
    /\ IsMain
    /\ halt = "exited"
    /\ status = 0
    /\ printed = <<10, 9, 8, 7, 6, 5, 4, 3, 2, 1>>
    /\ regs["rbp"] = regs0["rsp"] - 8

-----------------------------------------------------------------------------
(* Effects of the builders on the allocators, checked under Spec *)

\* C15: build_store and build_jump_if_zero release the register of a
\* Register value, so that the next build_constant returns it, and leave the
\* free list as it was for a Memory value; build_jump, build_call, build_exit
\* and build_alloc leave the free list as it was; every builder other than
\* build_alloc leaves the stack counter as it was.
C15_BuildersTouchOnlyTheirAllocator ==
    [][(CallStep(BuilderNames) /\ ~panicked') =>
          LET before == blocks[Entry]
              after == blocks'[Entry]
              op == last'.op
              value == last'.args[1]
              next == build_constant(after, DefaultValue)
          IN  /\ op \in {"build_store", "build_jump_if_zero"} =>
                     /\ IsRegister(value) =>
                            /\ ~next.panic
                            /\ next.ret = value
                            /\ after.registers.free_regs
                                   = Append(before.registers.free_regs, value.reg)
                     /\ IsMemory(value) =>
                            after.registers = before.registers
              /\ op \in {"build_jump", "build_call", "build_exit", "build_alloc"} =>
                     after.registers = before.registers
              /\ op # "build_alloc" => after.stack = before.stack]_vars

\* After an allocation of 8 bytes a stored constant's register was released
\* and the build_constant that followed returned it; the counter is still 8.
C15_Witness ==
    LET ins == EntryBlock.instructions
        n == Len(ins)
    IN  /\ n = 4
        /\ ins[1].op = "Alloc"
        /\ ins[3].op = "Store"
        /\ IsRegister(ins[3].value)
        /\ IsMemory(ins[3].storage)
        /\ last.op = "build_constant"
        /\ last.ret = ins[3].value
        /\ EntryBlock.stack.current_size = 8

\* C18 as stated: after a build_add, build_subtract, build_multiply or
\* build_divide call whose operands are live, the same register passed as
\* left and as right included, a Register result is not in the free list and
\* the next build_constant does not return it.
C18_Original_ResultStaysLive ==
    [][(/\ CallStep(BinaryBuilders)
        /\ RegsOf({last'.args[1], last'.args[2]}) \subseteq live[Entry]) =>
          LET ret == last'.ret
              after == blocks'[Entry]
          IN  IsRegister(ret) =>
                  /\ ret.reg \notin Range(after.registers.free_regs)
                  /\ build_constant(after, DefaultValue).ret # ret]_vars

-----------------------------------------------------------------------------
(* Frame slots of the blocks of one function, checked under SpecModule *)

\* The Memory locations build_alloc returned on block b
SlotsOf(b) == {v \in handed[b] : IsMemory(v)}

\* C17 as stated: Memory locations that build_alloc returned on two
\* different blocks appended to one function never render to the same
\* [rbp-offset] operand.
C17_Original_FrameSlotsDisjoint ==
    \A f \in DOMAIN funcs :
        \A b1, b2 \in Range(funcs[f].blocks) :
            b1 # b2 =>
                \A v1 \in SlotsOf(b1), v2 \in SlotsOf(b2) :
                    ValueRef_code(v1) # ValueRef_code(v2)

-----------------------------------------------------------------------------
(* Signed division, checked under SpecLower *)

\* C19 as stated: with left and right in registers other than rax and rdx,
\* any signed dividend and any non-zero divisor, the lowering of Divide runs
\* to its end without a fault and leaves in left the quotient truncated
\* toward zero.
C19_Original_SignedQuotient ==
    (/\ Lowered.op = "Divide"
     /\ IsRegister(Lowered.left)
     /\ IsRegister(Lowered.right)
     /\ {Lowered.left, Lowered.right} \cap {Rax, Rdx} = {}
     /\ ValueAtStart(Lowered.right) # 0) =>
        /\ halt # "fault"
        /\ halt = "done" =>
               ValueNow(Lowered.left)
                   = TruncDiv(ValueAtStart(Lowered.left), ValueAtStart(Lowered.right))

=============================================================================
